---------------------------- MODULE Spec2Model ----------------------------
(***************************************************************************)
(* EKF-SLAM estimator of src/gradedSLAM/EKFSLAM.py as a state machine.     *)
(*                                                                         *)
(* Arithmetic is exact.  A real number of the program is modelled as       *)
(*     r + q * (pi/2)        with r, q rational,                           *)
(* written [r |-> <<n, d>>, q |-> <<n, d>>].  Positions, ranges and the    *)
(* entries of P, H, S and W are rational (q = 0); angles that are whole    *)
(* quarter turns have r = 0 and q an integer, and for those rotmat2d, the  *)
(* norm and atan2 are exact.  An operation whose trigonometry is not exact *)
(* on its input (a heading off the quarter-turn grid, a landmark that is   *)
(* not straight ahead, behind, left or right of the sensor) is outside the *)
(* model: the call is not taken.                                           *)
(***************************************************************************)
EXTENDS Integers, Sequences, FiniteSets, TLC

(***************************************************************************)
(* Rationals <<n, d>>, d > 0, in lowest terms.                             *)
(***************************************************************************)
Abs(x) == IF x < 0 THEN -x ELSE x

RECURSIVE Gcd(_, _)
Gcd(a, b) == IF b = 0 THEN a ELSE Gcd(b, a % b)

Norm(n, d) ==
    LET s == IF d < 0 THEN -1 ELSE 1
        g == Gcd(Abs(n), Abs(d))
    IN  <<(s * n) \div g, (s * d) \div g>>

Rat(n) == <<n, 1>>
RZero == <<0, 1>>
ROne == <<1, 1>>
RAdd(x, y) == IF x[1] = 0 THEN y ELSE IF y[1] = 0 THEN x
              ELSE IF x[2] = y[2]
                   THEN (IF x[2] = 1 THEN <<x[1] + y[1], 1>> ELSE Norm(x[1] + y[1], x[2]))
              ELSE LET g == Gcd(x[2], y[2])
                   IN  Norm(x[1] * (y[2] \div g) + y[1] * (x[2] \div g),
                            x[2] * (y[2] \div g))
RNeg(x) == <<-x[1], x[2]>>
RSub(x, y) == RAdd(x, RNeg(y))
RMul(x, y) == IF x[1] = 0 \/ y[1] = 0 THEN RZero
              ELSE IF x[2] = 1 /\ y[2] = 1 THEN <<x[1] * y[1], 1>>
              ELSE LET a == Norm(x[1], y[2])
                       b == Norm(y[1], x[2])
                   IN  <<a[1] * b[1], a[2] * b[2]>>
RDiv(x, y) == RMul(x, Norm(y[2], y[1]))
RLt(x, y) == x[1] * y[2] < y[1] * x[2]
RLe(x, y) == x[1] * y[2] <= y[1] * x[2]
RAbs(x) == <<Abs(x[1]), x[2]>>

(***************************************************************************)
(* Numbers r + q*(pi/2).                                                   *)
(***************************************************************************)
Num(r, q) == [r |-> r, q |-> q]
NumR(r) == [r |-> r, q |-> RZero]
NumI(n) == [r |-> Rat(n), q |-> RZero]
QTurn(k) == [r |-> RZero, q |-> Rat(k)]
NAdd(x, y) == [r |-> RAdd(x.r, y.r), q |-> RAdd(x.q, y.q)]
NSub(x, y) == [r |-> RSub(x.r, y.r), q |-> RSub(x.q, y.q)]
NScale(c, x) == [r |-> RMul(c, x.r), q |-> RMul(c, x.q)]
IsRational(x) == x.q = RZero
IsGridAngle(x) == x.r = RZero /\ x.q[2] = 1

(***************************************************************************)
(* Vectors and matrices: sequences, and sequences of rows.                 *)
(***************************************************************************)
RECURSIVE RSum(_, _, _)
RSum(F(_), lo, hi) == IF lo > hi THEN RZero ELSE RAdd(F(lo), RSum(F, lo + 1, hi))

IsSquare(A) == \A i \in 1..Len(A) : Len(A[i]) = Len(A)
Eye(n) == SubSeq([i \in 1..n |-> SubSeq([j \in 1..n |-> IF i = j THEN ROne ELSE RZero], 1, n)], 1, n)
Zeros(n, m) == SubSeq([i \in 1..n |-> SubSeq([j \in 1..m |-> RZero], 1, m)], 1, n)
Transpose(A, n, m) == SubSeq([j \in 1..m |-> SubSeq([i \in 1..n |-> A[i][j]], 1, n)], 1, m)
\* A (n x k) @ B (k x m)
MatMul(A, B, n, k, m) ==
    SubSeq([i \in 1..n |-> SubSeq([j \in 1..m |->
        LET T(l) == RMul(A[i][l], B[l][j]) IN RSum(T, 1, k)], 1, m)], 1, n)
\* A (n x k) @ B^T, B (m x k)
MatMulT(A, B, n, k, m) ==
    SubSeq([i \in 1..n |-> SubSeq([j \in 1..m |->
        LET T(l) == RMul(A[i][l], B[j][l]) IN RSum(T, 1, k)], 1, m)], 1, n)
MatAdd(A, B, n, m) == SubSeq([i \in 1..n |-> SubSeq([j \in 1..m |-> RAdd(A[i][j], B[i][j])], 1, m)], 1, n)
MatSub(A, B, n, m) == SubSeq([i \in 1..n |-> SubSeq([j \in 1..m |-> RSub(A[i][j], B[i][j])], 1, m)], 1, n)
\* rows r0+1..r0+n, columns c0+1..c0+m of A
Block(A, r0, n, c0, m) == SubSeq([i \in 1..n |-> SubSeq([j \in 1..m |-> A[r0 + i][c0 + j]], 1, m)], 1, n)

IsSymmetric(A) ==
    /\ IsSquare(A)
    /\ \A i \in 1..Len(A) : \A j \in 1..Len(A) : A[i][j] = A[j][i]

\* Schur complement of the first pivot of the n x n matrix A
Schur(A, n) ==
    SubSeq([i \in 1..(n - 1) |-> SubSeq([j \in 1..(n - 1) |->
        RSub(A[i + 1][j + 1], RMul(RDiv(A[i + 1][1], A[1][1]), A[1][j + 1]))], 1, (n - 1))], 1, (n - 1))

\* np.all(np.linalg.eigvals(A) >= 0) for a symmetric A: elimination, pivot by pivot
RECURSIVE EigvalsNonNeg(_)
EigvalsNonNeg(A) ==
    LET n == Len(A) IN
    IF n = 0 THEN TRUE
    ELSE IF A[1][1][1] < 0 THEN FALSE
    ELSE IF A[1][1][1] = 0
         THEN /\ \A j \in 1..n : A[1][j][1] = 0
              /\ EigvalsNonNeg(Block(A, 1, n - 1, 1, n - 1))
    ELSE EigvalsNonNeg(Schur(A, n))

\* np.all(np.linalg.eigvals(A) > 0) for a symmetric A
RECURSIVE EigvalsPos(_)
EigvalsPos(A) ==
    LET n == Len(A) IN
    IF n = 0 THEN TRUE
    ELSE IF A[1][1][1] <= 0 THEN FALSE
    ELSE EigvalsPos(Schur(A, n))

(***************************************************************************)
(* utils.rotmat2d and utils.wrapToPi on whole quarter turns.               *)
(***************************************************************************)
Cos4(k) == LET m == k % 4 IN IF m = 0 THEN 1 ELSE IF m = 2 THEN -1 ELSE 0
Sin4(k) == LET m == k % 4 IN IF m = 1 THEN 1 ELSE IF m = 3 THEN -1 ELSE 0

\* rotmat2d(angle), angle = k quarter turns
rotmat2d(k) == << <<Rat(Cos4(k)), Rat(-Sin4(k))>>,
                  <<Rat(Sin4(k)), Rat(Cos4(k))>> >>

\* wrapToPi(angle): the representative in (-pi, pi]
wrapToPi(a) == QTurn(((a.q[1] + 1) % 4) - 1)

\* the quarter turns of a grid angle
Q4(a) == a.q[1]

\* rational 2x2 matrix @ 2-vector of numbers
Rot2Vec(M, v) ==
    SubSeq([i \in 1..2 |-> NAdd(NScale(M[i][1], v[1]), NScale(M[i][2], v[2]))], 1, 2)
\* rational 2x2 matrix @ 2-vector of rationals
Rot2Rat(M, v) ==
    SubSeq([i \in 1..2 |-> RAdd(RMul(M[i][1], v[1]), RMul(M[i][2], v[2]))], 1, 2)

(***************************************************************************)
(* The motion model: EKFSLAM.f, Fx, Fu.                                    *)
(***************************************************************************)
\* the odometry's translation is rational and headings are on the grid
MotionExact(x, u) ==
    /\ IsGridAngle(x[3]) /\ IsGridAngle(u[3])
    /\ IsRational(u[1]) /\ IsRational(u[2])

\* lines 59-62
f(x, u) ==
    LET d == Rot2Vec(rotmat2d(Q4(x[3])), <<u[1], u[2]>>)
    IN  <<NAdd(x[1], d[1]), NAdd(x[2], d[2]), wrapToPi(NAdd(x[3], u[3]))>>

\* Fx without the heading column
Fx_identity(x, u) == Eye(3)

\* lines 80-86
Fx(x, u) ==
    LET c == Rot2Rat(rotmat2d(Q4(x[3]) + 1), <<u[1].r, u[2].r>>)
    IN  << <<ROne, RZero, c[1]>>,
           <<RZero, ROne, c[2]>>,
           <<RZero, RZero, ROne>> >>

\* lines 104-111
Fu(x, u) ==
    LET Rm == rotmat2d(Q4(x[3]))
    IN  << <<Rm[1][1], Rm[1][2], RZero>>,
           <<Rm[2][1], Rm[2][2], RZero>>,
           <<RZero, RZero, ROne>> >>

(***************************************************************************)
(* State.  eta and P are the caller's arrays; slam is the EKFSLAM object   *)
(* (Q, R, do_asso, sensor_offset as set by __init__); last records the     *)
(* last call: its inputs, what it returned, or that it raised.             *)
(***************************************************************************)
VARIABLES eta, P, slam, last, calls, corrs

vars == <<eta, P, slam, last, calls, corrs>>

\* landmarks in a state vector
NumLmk(e) == (Len(e) - 3) \div 2

\* eta.shape * 2 == P.shape
ShapesMatch(e, A) == Len(A) = Len(e) /\ IsSquare(A)

(***************************************************************************)
(* EKFSLAM.predict.  The covariance is overwritten in place, so a raise    *)
(* after line 158 leaves the caller's P changed.                           *)
(***************************************************************************)
predict_pre(e, A) ==
    /\ IsSymmetric(A)
    /\ EigvalsNonNeg(A)
    /\ ShapesMatch(e, A)

predict_post(e, A) ==
    /\ IsSymmetric(A)
    /\ EigvalsPos(A)
    /\ ShapesMatch(e, A)

\* a prediction that carries the landmarks along with the robot
predict_eta_moving_map(e, u) ==
    LET xp == f(SubSeq(e, 1, 3), u)
    IN  SubSeq([i \in 1..Len(e) |-> IF i <= 3 THEN xp[i] ELSE NAdd(e[i], u[1])], 1, Len(e))

\* lines 145-146
predict_eta(e, u) ==
    LET xp == f(SubSeq(e, 1, 3), u)
    IN  SubSeq([i \in 1..Len(e) |-> IF i <= 3 THEN xp[i] ELSE e[i]], 1, Len(e))

\* lines 156-158
predict_P(e, A, u, Q) ==
    LET n == Len(A)
        x == SubSeq(e, 1, 3)
        FX == Fx(x, u)
        FU == Fu(x, u)
        Pxx == MatAdd(MatMulT(MatMul(FX, Block(A, 0, 3, 0, 3), 3, 3, 3), FX, 3, 3, 3),
                      MatMulT(MatMul(FU, Q, 3, 3, 3), FU, 3, 3, 3), 3, 3)
        Pxm == MatMul(FX, Block(A, 0, 3, 3, n - 3), 3, 3, n - 3)
    IN  SubSeq([i \in 1..n |-> SubSeq([j \in 1..n |->
            IF i <= 3 /\ j <= 3 THEN Pxx[i][j]
            ELSE IF i <= 3 THEN Pxm[i][j - 3]
            ELSE IF j <= 3 THEN Pxm[j][i - 3]
            ELSE A[i][j]], 1, n)], 1, n)

\* the blocks computed into a new array, the argument left as it was
predict_argP_untouched(A, Pn) == A

\* lines 156-158 assign into slices of the argument P: after them the
\* caller's array holds the predicted covariance
predict_argP(A, Pn) == Pn

\* [status, eta, P, argP, sameP]: the returned pair, or the raise and the
\* caller's P after it; argP is what the array passed as P holds when the
\* call ends, sameP that the P returned is that array (line 168)
predict(e, A, u, Q) ==
    IF ~predict_pre(e, A)
    THEN [status |-> "raise", eta |-> e, P |-> A, argP |-> A, sameP |-> FALSE]
    ELSE LET etapred == predict_eta(e, u)
             Pn == predict_P(e, A, u, Q)
         IN  IF predict_post(etapred, Pn)
             THEN [status |-> "ok", eta |-> etapred, P |-> Pn,
                   argP |-> predict_argP(A, Pn), sameP |-> TRUE]
             ELSE [status |-> "raise", eta |-> e, P |-> predict_argP(A, Pn),
                   argP |-> predict_argP(A, Pn), sameP |-> FALSE]

(***************************************************************************)
(* The measurement model: EKFSLAM.h and EKFSLAM.H.                         *)
(***************************************************************************)
\* landmark i (1-based) of e, as a pair of rationals
Lmk(e, i) == <<e[3 + 2 * i - 1].r, e[3 + 2 * i].r>>

\* line 192: landmark minus robot position minus the sensor offset in the world frame
SensorDelta(e, off, i) ==
    LET ow == Rot2Rat(rotmat2d(Q4(e[3])), off)
        m == Lmk(e, i)
    IN  <<RSub(RSub(m[1], e[1].r), ow[1]), RSub(RSub(m[2], e[2].r), ow[2])>>

\* norm and atan2 are exact: rational positions, heading on the grid, every
\* landmark on one of the sensor's axes
hExact(e, off) ==
    /\ IsGridAngle(e[3])
    /\ \A i \in 1..Len(e) : i # 3 => IsRational(e[i])
    /\ \A i \in 1..NumLmk(e) :
          LET d == SensorDelta(e, off, i) IN d[1][1] = 0 \/ d[2][1] = 0

\* the signed sum of the components
AxisNorm_signed(d) == RAdd(d[1], d[2])

\* np.linalg.norm of an axis-aligned vector
AxisNorm(d) == RAdd(RAbs(d[1]), RAbs(d[2]))

\* np.arctan2(c[2], c[1]) of an axis-aligned vector, in quarter turns
AxisAtan2(c) ==
    IF c[2][1] > 0 THEN 1
    ELSE IF c[2][1] < 0 THEN -1
    ELSE IF c[1][1] < 0 THEN 2
    ELSE 0

\* bearings taken in the world frame, not rotated by -heading
h_world_bearing(e, off) ==
    SubSeq([k \in 1..(2 * NumLmk(e)) |->
        LET i == (k + 1) \div 2
            d == SensorDelta(e, off, i)
        IN  IF k % 2 = 1 THEN NumR(AxisNorm(d)) ELSE QTurn(AxisAtan2(d))], 1, (2 * NumLmk(e)))

\* lines 184-209
h(e, off) ==
    SubSeq([k \in 1..(2 * NumLmk(e)) |->
        LET i == (k + 1) \div 2
            d == SensorDelta(e, off, i)
            cart == Rot2Rat(rotmat2d(-Q4(e[3])), d)
        IN  IF k % 2 = 1 THEN NumR(AxisNorm(d)) ELSE QTurn(AxisAtan2(cart))], 1, (2 * NumLmk(e)))

\* no landmark at zero range: H divides by the range (lines 263-264)
HExact(e, off) ==
    /\ hExact(e, off)
    /\ \A i \in 1..NumLmk(e) : AxisNorm(SensorDelta(e, off, i)) # RZero

\* lines 261-266: the two rows of landmark i in the pose columns
HxRows(e, off, i) ==
    LET m == Lmk(e, i)
        dm == <<RSub(m[1], e[1].r), RSub(m[2], e[2].r)>>
        ow == Rot2Rat(rotmat2d(Q4(e[3])), off)
        zc == <<RSub(dm[1], ow[1]), RSub(dm[2], ow[2])>>
        zr == h(e, off)[2 * i - 1].r
        n2 == RAdd(RMul(zc[1], zc[1]), RMul(zc[2], zc[2]))
        rp == Rot2Rat(rotmat2d(1), dm)
        jac == << <<Rat(-1), RZero, RNeg(rp[1])>>,
                  <<RZero, Rat(-1), RNeg(rp[2])>> >>
        a == <<RDiv(zc[1], zr), RDiv(zc[2], zr)>>
        b == <<RDiv(RNeg(zc[2]), n2), RDiv(zc[1], n2)>>
    IN  << SubSeq([k \in 1..3 |-> RAdd(RMul(a[1], jac[1][k]), RMul(a[2], jac[2][k]))], 1, 3),
           SubSeq([k \in 1..3 |-> RAdd(RMul(b[1], jac[1][k]), RMul(b[2], jac[2][k]))], 1, 3) >>

\* every landmark's block written into the first landmark's columns
H_first_landmark_cols(e, off) ==
    LET L == NumLmk(e)
        rows == SubSeq([i \in 1..L |-> HxRows(e, off, i)], 1, L)
    IN  SubSeq([k \in 1..(2 * L) |-> SubSeq([c \in 1..(3 + 2 * L) |->
            LET i == (k + 1) \div 2
                w == IF k % 2 = 1 THEN 1 ELSE 2
            IN  IF c <= 3 THEN rows[i][w][c]
                ELSE IF c = 4 THEN RNeg(rows[i][w][1])
                ELSE IF c = 5 THEN RNeg(rows[i][w][2])
                ELSE RZero], 1, (3 + 2 * L))], 1, (2 * L))

\* lines 225-272
H(e, off) ==
    LET L == NumLmk(e)
        rows == SubSeq([i \in 1..L |-> HxRows(e, off, i)], 1, L)
    IN  SubSeq([k \in 1..(2 * L) |-> SubSeq([c \in 1..(3 + 2 * L) |->
            LET i == (k + 1) \div 2
                w == IF k % 2 = 1 THEN 1 ELSE 2
            IN  IF c <= 3 THEN rows[i][w][c]
                ELSE IF c = 3 + 2 * i - 1 THEN RNeg(rows[i][w][1])
                ELSE IF c = 3 + 2 * i THEN RNeg(rows[i][w][2])
                ELSE RZero], 1, (3 + 2 * L))], 1, (2 * L))

(***************************************************************************)
(* EKFSLAM.add_landmarks.  z is flat: range, bearing, range, bearing, ...  *)
(***************************************************************************)
\* the measurements are exact: rational ranges, bearings on the grid
zExact(z) ==
    \A k \in 1..Len(z) : IF k % 2 = 1 THEN IsRational(z[k]) ELSE IsGridAngle(z[k])

\* line 311
LmkRot(e, z, j) == rotmat2d(Q4(e[3]) + Q4(z[2 * j]))

\* the sensor offset added in the body frame, not rotated by the heading
lmnew_offset_unrotated(e, z, off) ==
    SubSeq([k \in 1..Len(z) |->
        LET j == (k + 1) \div 2
            w == IF k % 2 = 1 THEN 1 ELSE 2
            rot == LmkRot(e, z, j)
        IN  NAdd(e[w], NumR(RAdd(RMul(z[2 * j - 1].r, rot[w][1]), off[w])))], 1, Len(z))

\* lines 312-313
lmnew(e, z, off) ==
    LET sow == Rot2Rat(rotmat2d(Q4(e[3])), off)
    IN  SubSeq([k \in 1..Len(z) |->
            LET j == (k + 1) \div 2
                w == IF k % 2 = 1 THEN 1 ELSE 2
                rot == LmkRot(e, z, j)
            IN  NAdd(e[w], NumR(RAdd(RMul(z[2 * j - 1].r, rot[w][1]), sow[w])))], 1, Len(z))

\* the Jacobian without its heading column
Gx_position_only(e, z, off) ==
    SubSeq([k \in 1..Len(z) |->
        << IF k % 2 = 1 THEN ROne ELSE RZero, IF k % 2 = 0 THEN ROne ELSE RZero, RZero >>],
        1, Len(z))

\* lines 315-316
Gx(e, z, off) ==
    LET der == Rot2Rat(rotmat2d(Q4(e[3]) + 1), off)
    IN  SubSeq([k \in 1..Len(z) |->
            LET j == (k + 1) \div 2
                w == IF k % 2 = 1 THEN 1 ELSE 2
                rot == LmkRot(e, z, j)
            IN  << IF w = 1 THEN ROne ELSE RZero,
                   IF w = 2 THEN ROne ELSE RZero,
                   RAdd(RMul(z[2 * j - 1].r, rot[w][2]), der[w]) >>], 1, Len(z))

\* line 318
Gz(e, z, j) ==
    LET rot == LmkRot(e, z, j)
        r == z[2 * j - 1].r
    IN  << <<rot[1][1], RMul(rot[1][2], r)>>,
           <<rot[2][1], RMul(rot[2][2], r)>> >>

\* lines 301, 320
Rall(e, z, R) ==
    LET blk == SubSeq([j \in 1..(Len(z) \div 2) |->
                   LET G == Gz(e, z, j)
                   IN  MatMulT(MatMul(G, R, 2, 2, 2), G, 2, 2, 2)], 1, (Len(z) \div 2))
    IN  SubSeq([k \in 1..Len(z) |-> SubSeq([c \in 1..Len(z) |->
            LET j == (k + 1) \div 2
            IN  IF (c + 1) \div 2 = j
                THEN blk[j][k - 2 * (j - 1)][c - 2 * (j - 1)]
                ELSE RZero], 1, Len(z))], 1, Len(z))

\* the block diagonal of line 324 without the cross blocks of lines 325-326
Padded_block_diag(e, A, z, R, off) ==
    LET n == Len(A)
        m == Len(z)
        G == Gx(e, z, off)
        new == MatAdd(MatMulT(MatMul(G, Block(A, 0, 3, 0, 3), m, 3, 3), G, m, 3, m),
                      Rall(e, z, R), m, m)
    IN  SubSeq([i \in 1..(n + m) |-> SubSeq([j \in 1..(n + m) |->
            IF i <= n /\ j <= n THEN A[i][j]
            ELSE IF i <= n \/ j <= n THEN RZero
            ELSE new[i - n][j - n]], 1, (n + m))], 1, (n + m))

\* lines 324-326
Padded(e, A, z, R, off) ==
    LET n == Len(A)
        m == Len(z)
        G == Gx(e, z, off)
        new == MatAdd(MatMulT(MatMul(G, Block(A, 0, 3, 0, 3), m, 3, 3), G, m, 3, m),
                      Rall(e, z, R), m, m)
        top == MatMulT(Block(A, 0, n, 0, 3), G, n, 3, m)
    IN  SubSeq([i \in 1..(n + m) |-> SubSeq([j \in 1..(n + m) |->
            IF i <= n /\ j <= n THEN A[i][j]
            ELSE IF i <= n THEN top[i][j - n]
            ELSE IF j <= n THEN top[j][i - n]
            ELSE new[i - n][j - n]], 1, (n + m))], 1, (n + m))

add_landmarks_post(e, A) ==
    /\ ShapesMatch(e, A)
    /\ IsSymmetric(A)
    /\ EigvalsNonNeg(A)

\* new landmarks put right after the pose, before the landmarks already there
etaadded_after_pose(e, z, off) ==
    SubSeq(e, 1, 3) \o lmnew(e, z, off) \o SubSeq(e, 4, Len(e))

\* line 323
etaadded(e, z, off) == e \o lmnew(e, z, off)

add_landmarks(e, A, z, R, off) ==
    LET ea == etaadded(e, z, off)
        Pa == Padded(e, A, z, R, off)
    IN  IF add_landmarks_post(ea, Pa)
        THEN [status |-> "ok", eta |-> ea, P |-> Pa]
        ELSE [status |-> "raise", eta |-> e, P |-> A]

(***************************************************************************)
(* EKFSLAM.associate.  a is the assignment JCBB returns: one entry per     *)
(* measurement, a landmark index (0-based) or -1.                          *)
(***************************************************************************)
\* the measurement indices (1-based) with a > -1, in order
RECURSIVE MatchedFrom(_, _)
MatchedFrom(a, i) ==
    IF i > Len(a) THEN <<>>
    ELSE IF a[i] > -1 THEN <<i>> \o MatchedFrom(a, i + 1)
    ELSE MatchedFrom(a, i + 1)

Matched(a) == MatchedFrom(a, 1)

RECURSIVE UnmatchedFrom(_, _)
UnmatchedFrom(a, i) ==
    IF i > Len(a) THEN <<>>
    ELSE IF a[i] = -1 THEN <<i>> \o UnmatchedFrom(a, i + 1)
    ELSE UnmatchedFrom(a, i + 1)

\* lines 371-374: z[zinds]
zass(z, a) ==
    LET m == Matched(a)
    IN  SubSeq([k \in 1..(2 * Len(m)) |->
            IF k % 2 = 1 THEN z[2 * m[(k + 1) \div 2] - 1] ELSE z[2 * m[(k + 1) \div 2]]], 1, (2 * Len(m)))

\* the positions in measurement order instead of landmark order
zbarinds_by_measurement(a) ==
    LET m == Matched(a)
    IN  SubSeq([k \in 1..(2 * Len(m)) |-> k], 1, (2 * Len(m)))

\* lines 377-379, as 1-based positions
zbarinds(a) ==
    LET m == Matched(a)
    IN  SubSeq([k \in 1..(2 * Len(m)) |->
            IF k % 2 = 1 THEN 2 * a[m[(k + 1) \div 2]] + 1
            ELSE 2 * a[m[(k + 1) \div 2]] + 2], 1, (2 * Len(m)))

\* lines 366-392: the 5-tuple, or None
associate(z, zpred, Hm, S, a, do_asso) ==
    IF do_asso
    THEN LET zb == zbarinds(a)
             k == Len(zb)
         IN  [none |-> FALSE,
              zass |-> zass(z, a),
              zpredass |-> SubSeq([i \in 1..k |-> zpred[zb[i]]], 1, k),
              Hass |-> SubSeq([i \in 1..k |-> Hm[zb[i]]], 1, k),
              Sass |-> SubSeq([i \in 1..k |-> SubSeq([j \in 1..k |-> S[zb[i]][zb[j]]], 1, k)], 1, k),
              a |-> a]
    ELSE [none |-> TRUE]

(***************************************************************************)
(* Linear algebra of the Kalman correction.                                *)
(***************************************************************************)
\* the one element of a singleton: Only({F(x) : x \in {v}}) is F(v), with v
\* evaluated once
Only(S) == CHOOSE x \in S : TRUE

\* the inverse of A from its first pivot and Si, the inverse of the pivot's
\* Schur complement
InvFrom(A, n, Si) ==
    LET p == A[1][1]
        \* t = Si @ b / p, b the first column below the pivot
        t == SubSeq([i \in 1..(n - 1) |->
                 LET T(l) == RMul(Si[i][l], A[l + 1][1])
                 IN  RDiv(RSum(T, 1, n - 1), p)], 1, (n - 1))
        bt == LET T(l) == RMul(A[l + 1][1], t[l]) IN RSum(T, 1, n - 1)
    IN  SubSeq([i \in 1..n |-> SubSeq([j \in 1..n |->
            IF i = 1 /\ j = 1 THEN RAdd(RDiv(ROne, p), RDiv(bt, p))
            ELSE IF i = 1 THEN RNeg(t[j - 1])
            ELSE IF j = 1 THEN RNeg(t[i - 1])
            ELSE Si[i - 1][j - 1]], 1, n)], 1, n)

\* la.inv of a symmetric positive definite matrix, pivot by pivot
RECURSIVE Inv(_)
Inv(A) ==
    IF Len(A) = 0 THEN <<>>
    ELSE IF Len(A) = 1 THEN << <<RDiv(ROne, A[1][1])>> >>
    ELSE Only({ InvFrom(A, Len(A), Si) : Si \in {Inv(Schur(A, Len(A)))} })

\* line 421: np.diag(np.diagonal(ml.repmat(R, numLmk, numLmk)))
Rbig(R, L) ==
    SubSeq([i \in 1..(2 * L) |-> SubSeq([j \in 1..(2 * L) |->
        IF i = j THEN R[2 - (i % 2)][2 - (i % 2)] ELSE RZero], 1, (2 * L))], 1, (2 * L))

\* line 425
InnovCov(Hm, A, Rb, L) ==
    LET n == 3 + 2 * L
    IN  MatAdd(MatMulT(MatMul(Hm, A, 2 * L, n, n), Hm, 2 * L, n, 2 * L), Rb, 2 * L, 2 * L)

\* lines 442-443
Innovation(za, zp) ==
    SubSeq([k \in 1..Len(za) |->
        IF k % 2 = 0 THEN wrapToPi(NSub(za[k], zp[k])) ELSE NSub(za[k], zp[k])], 1, Len(za))

\* line 449
KalmanGain(A, Ha, Sa, n, k) == MatMul(MatMulT(A, Ha, n, n, k), Inv(Sa), n, k, k)

\* the correction with its sign turned
KalmanMean_minus(e, W, v) ==
    SubSeq([i \in 1..Len(e) |->
        LET Tr(l) == RMul(W[i][l], v[l].r)
            Tq(l) == RMul(W[i][l], v[l].q)
        IN  NSub(e[i], Num(RSum(Tr, 1, Len(v)), RSum(Tq, 1, Len(v))))], 1, Len(e))

\* line 451: eta + W @ v
KalmanMean(e, W, v) ==
    SubSeq([i \in 1..Len(e) |->
        LET Tr(l) == RMul(W[i][l], v[l].r)
            Tq(l) == RMul(W[i][l], v[l].q)
        IN  NAdd(e[i], Num(RSum(Tr, 1, Len(v)), RSum(Tq, 1, Len(v))))], 1, Len(e))

\* lines 454-457: (I - W @ Ha) @ P
KalmanCov(A, W, Ha, n, k) ==
    MatMul(MatSub(Eye(n), MatMul(W, Ha, n, k, n), n, n), A, n, n, n)

\* line 460: v.T @ S^-1 @ v, a polynomial c0 + c1*(pi/2) + c2*(pi/2)^2
NISof(v, Sa) ==
    LET Si == Inv(Sa)
        k == Len(v)
        C0(i) == LET T(j) == RMul(Si[i][j], RMul(v[i].r, v[j].r)) IN RSum(T, 1, k)
        C1(i) == LET T(j) == RMul(Si[i][j], RAdd(RMul(v[i].r, v[j].q), RMul(v[i].q, v[j].r)))
                 IN  RSum(T, 1, k)
        C2(i) == LET T(j) == RMul(Si[i][j], RMul(v[i].q, v[j].q)) IN RSum(T, 1, k)
    IN  <<RSum(C0, 1, k), RSum(C1, 1, k), RSum(C2, 1, k)>>

\* the NIS of lines 438 and 471
NISOne == <<ROne, RZero, RZero>>

(***************************************************************************)
(* EKFSLAM.update.  zb is the batch, shape (#detections, 2); a is what     *)
(* JCBB answers when it is asked.                                          *)
(***************************************************************************)
\* z.ravel()
Ravel(zb) == SubSeq([k \in 1..(2 * Len(zb)) |-> zb[(k + 1) \div 2][2 - (k % 2)]], 1, (2 * Len(zb)))

\* line 469
AllNew(m) == SubSeq([i \in 1..m |-> -1], 1, m)

\* lines 479-482: z[z_new_inds]
z_new(z, a) ==
    LET u == UnmatchedFrom(a, 1)
    IN  SubSeq([k \in 1..(2 * Len(u)) |->
            IF k % 2 = 1 THEN z[2 * u[(k + 1) \div 2] - 1] ELSE z[2 * u[(k + 1) \div 2]]], 1, (2 * Len(u)))

\* the check after the correction without its eigenvalue test
update_kalman_post_sym_only(A) == IsSymmetric(A)

\* lines 463-466
update_kalman_post(A) == IsSymmetric(A) /\ EigvalsPos(A)

\* the final check without its eigenvalue test
update_post_sym_only(A) == IsSymmetric(A)

\* lines 485-486
update_post(A) == IsSymmetric(A) /\ EigvalsNonNeg(A)

\* the locals of update kept for inspection: zpred and H of lines 418-419, S of
\* line 425, what JCBB answered (aj) and associate returned (za, zpa, Ha, Sa),
\* the innovation v and the gain W
NoKalman == [S |-> <<>>, v |-> <<>>, W |-> <<>>, Ha |-> <<>>, Sa |-> <<>>, zpa |-> <<>>,
             za |-> <<>>, zpred |-> <<>>, H |-> <<>>, aj |-> <<>>]

Raised(e, A, a, k) ==
    [status |-> "raise", eta |-> e, P |-> A, NIS |-> NISOne, a |-> a,
     etaupd |-> e, Pupd |-> A, corrected |-> FALSE, k |-> k]

\* the skip with 0 for the NIS
NoCorrection_nis0(e, A, a, k) ==
    [status |-> "ok", etaupd |-> e, Pupd |-> A, NIS |-> <<RZero, RZero, RZero>>,
     a |-> a, corrected |-> FALSE, k |-> k]

\* lines 436-438 and 469-473
NoCorrection(e, A, a, k) ==
    [status |-> "ok", etaupd |-> e, Pupd |-> A, NIS |-> NISOne, a |-> a,
     corrected |-> FALSE, k |-> k]

\* lines 451-466, with the innovation v, the gain W and the covariance Pupd
update_kalman(e, A, as, S, v, W, Pupd) ==
    IF ~update_kalman_post(Pupd)
    THEN Raised(e, A, as.a, [NoKalman EXCEPT !.S = S, !.v = v, !.W = W, !.Ha = as.Hass,
                                             !.Sa = as.Sass, !.zpa = as.zpredass,
                                             !.za = as.zass])
    ELSE [status |-> "ok", etaupd |-> KalmanMean(e, W, v), Pupd |-> Pupd,
          NIS |-> NISof(v, as.Sass), a |-> as.a, corrected |-> TRUE,
          k |-> [NoKalman EXCEPT !.S = S, !.v = v, !.W = W, !.Ha = as.Hass,
                                 !.Sa = as.Sass, !.zpa = as.zpredass, !.za = as.zass]]

\* lines 442-457, with the gain W
update_gain(e, A, as, S, W) ==
    Only({ update_kalman(e, A, as, S, Innovation(as.zass, as.zpredass), W, Pupd) :
             Pupd \in {KalmanCov(A, W, as.Hass, Len(e), Len(as.zass))} })

\* lines 432-466, with as what associate returned
update_assoc(e, A, a, S, as) ==
    IF as.none
    THEN Raised(e, A, a, [NoKalman EXCEPT !.S = S])
    ELSE IF Len(as.zass) = 0
    THEN NoCorrection(e, A, a, [NoKalman EXCEPT !.S = S])
    ELSE IF ~EigvalsPos(as.Sass)
    THEN Raised(e, A, a, [NoKalman EXCEPT !.S = S])
    ELSE Only({ update_gain(e, A, as, S, W) :
                  W \in {KalmanGain(A, as.Hass, as.Sass, Len(e), Len(as.zass))} })

\* lines 425-466, with zpred and Hm of lines 418-419
update_innov(e, A, z, a, sl, zpred, Hm) ==
    Only({ [r EXCEPT !.k.zpred = zpred, !.k.H = Hm, !.k.aj = a] :
             r \in { update_assoc(e, A, a, S, associate(z, zpred, Hm, S, a, sl.do_asso)) :
                       S \in {InnovCov(Hm, A, Rbig(sl.R, NumLmk(e)), NumLmk(e))} } })

\* lines 416-473: [status, etaupd, Pupd, NIS, a, corrected, k]; H @ P at line
\* 425 raises when P has not the size of eta
update_correct(e, A, z, a, sl) ==
    IF NumLmk(e) > 0 /\ Len(A) # Len(e)
    THEN Raised(e, A, <<>>, NoKalman)
    ELSE IF NumLmk(e) > 0
    THEN Only({ update_innov(e, A, z, a, sl, zpred, Hm) :
                  zpred \in {h(e, sl.sensor_offset)}, Hm \in {H(e, sl.sensor_offset)} })
    ELSE NoCorrection(e, A, AllNew(Len(z) \div 2), NoKalman)

\* lines 476-483 take new landmarks
TakesNew(c, sl) == sl.do_asso /\ \E i \in 1..Len(c.a) : c.a[i] = -1

\* landmarks initialised from the eta and P the call was given, not from the
\* corrected ones
update_finish_from_inputs(e, A, z, c, sl) ==
        IF c.status = "raise" THEN c
        ELSE LET g == IF TakesNew(c, sl)
                      THEN add_landmarks(e, A, z_new(z, c.a), sl.R, sl.sensor_offset)
                      ELSE [status |-> "ok", eta |-> c.etaupd, P |-> c.Pupd]
             IN  IF g.status = "raise" \/ ~update_post(g.P)
                 THEN Raised(e, A, c.a, c.k)
                 ELSE [status |-> "ok", eta |-> g.eta, P |-> g.P, NIS |-> c.NIS,
                       a |-> c.a, etaupd |-> c.etaupd, Pupd |-> c.Pupd,
                       corrected |-> c.corrected, k |-> c.k]

\* lines 475-488, c the outcome of lines 416-473
update_finish(e, A, z, c, sl) ==
        IF c.status = "raise" THEN c
        ELSE LET g == IF TakesNew(c, sl)
                      THEN add_landmarks(c.etaupd, c.Pupd, z_new(z, c.a), sl.R,
                                         sl.sensor_offset)
                      ELSE [status |-> "ok", eta |-> c.etaupd, P |-> c.Pupd]
             IN  IF g.status = "raise" \/ ~update_post(g.P)
                 THEN Raised(e, A, c.a, c.k)
                 ELSE [status |-> "ok", eta |-> g.eta, P |-> g.P, NIS |-> c.NIS,
                       a |-> c.a, etaupd |-> c.etaupd, Pupd |-> c.Pupd,
                       corrected |-> c.corrected, k |-> c.k]

(***************************************************************************)
(* Bounds of the model and the inputs the driving loop draws from.         *)
(***************************************************************************)
MaxCalls == 3
MaxCorr == 1
MaxLmk == 2
MaxDet == 2

IntMat(M) == SubSeq([i \in 1..Len(M) |-> SubSeq([j \in 1..Len(M[i]) |-> Rat(M[i][j])], 1, Len(M[i]))], 1, Len(M))

\* odometry noise Q and the measurement noises R an EKFSLAM is built with
QMat == IntMat(<< <<1, 0, 0>>, <<0, 2, 0>>, <<0, 0, 1>> >>)
\* (R, sensor_offset) of the EKFSLAM objects built
Builds == { << IntMat(<< <<1, 0>>, <<0, 1>> >>), <<Rat(0), Rat(0)>> >>,
            << IntMat(<< <<2, 1>>, <<1, 2>> >>), <<Rat(1), Rat(0)>> >> }

\* odometry increments (dx, dy, dtheta), dtheta in quarter turns
Odometry == { <<NumI(1), NumI(0), QTurn(0)>>,
              <<NumI(0), NumI(0), QTurn(1)>> }

\* detections (range, bearing), bearing in quarter turns
Detections == { <<NumI(1), QTurn(0)>>, <<NumI(2), QTurn(-1)>> }
\* batches of at most MaxDet detections, no detection twice in a batch
Batches ==
    { zb \in UNION { [1..m -> Detections] : m \in 0..MaxDet } :
        \A i \in 1..Len(zb) : \A j \in 1..Len(zb) : i # j => zb[i] # zb[j] }

\* what JCBB may answer for m measurements and L landmarks: each measurement
\* unmatched (-1) or matched to a landmark, no landmark matched twice
Assignments(m, L) ==
    { a \in [1..m -> -1..(L - 1)] :
        \A i \in 1..m : \A j \in 1..m : (i # j /\ a[i] > -1) => a[i] # a[j] }

\* starting states: no landmarks yet (with a covariance that is valid, zero,
\* asymmetric or indefinite), or the robot heading pi with one landmark two
\* units to the left of the sensor, or the robot at the origin heading 0 with
\* one landmark at (2, 0)
Eta0 == <<NumI(0), NumI(0), QTurn(0)>>
Eta2 == <<NumI(0), NumI(0), QTurn(0), NumI(2), NumI(0)>>
Eta1(off) == <<NumI(0), NumI(0), QTurn(2), NumR(RNeg(off[1])), NumR(RSub(Rat(-2), off[2]))>>
P0Asym == IntMat(<< <<1, 1, 0>>, <<0, 1, 0>>, <<0, 0, 1>> >>)
P0Indef == IntMat(<< <<1, 2, 0>>, <<2, 1, 0>>, <<0, 0, 1>> >>)
Starts(off) == { <<Eta0, Eye(3)>>, <<Eta0, Zeros(3, 3)>>, <<Eta0, P0Asym>>,
                 <<Eta0, P0Indef>>, <<Eta1(off), Eye(5)>>, <<Eta2, Eye(5)>> }

NoCall == [op |-> "init", status |-> "ok", eta_in |-> <<>>, P_in |-> <<>>,
           u |-> <<>>, zb |-> <<>>, NIS |-> NISOne, a |-> <<>>,
           etaupd |-> <<>>, Pupd |-> <<>>, corrected |-> FALSE, k |-> NoKalman,
           argEta |-> <<>>, argP |-> <<>>, sameEta |-> FALSE, sameP |-> FALSE]

Init ==
    /\ \E b \in Builds : \E d \in BOOLEAN : \E s \in Starts(b[2]) :
          /\ slam = [Q |-> QMat, R |-> b[1], do_asso |-> d, sensor_offset |-> b[2]]
          /\ eta = s[1]
          /\ P = s[2]
    /\ last = NoCall
    /\ calls = 0
    /\ corrs = 0

\* the loop goes on while no call has raised
Running == last.status = "ok" /\ calls < MaxCalls

\* the caller's arrays and the record of the call, r what predict gave;
\* etapred is a new array (line 141), so the eta passed in keeps its contents
PredictReturn(u, r) ==
    /\ eta' = r.eta
    /\ P' = r.P
    /\ last' = [NoCall EXCEPT !.op = "predict", !.status = r.status,
                              !.eta_in = eta, !.P_in = P, !.u = u,
                              !.argEta = eta, !.argP = r.argP, !.sameP = r.sameP]

Predict(u) ==
    /\ Running
    /\ predict_pre(eta, P) => MotionExact(eta, u)
    /\ \E r \in {predict(eta, P, u, slam.Q)} : PredictReturn(u, r)
    /\ calls' = calls + 1
    /\ UNCHANGED <<slam, corrs>>

\* the measurement model is exact on the state and the batch, the map stays
\* within MaxLmk and the Kalman corrections of a run within MaxCorr
UpdateExact(zb, a) ==
    /\ (NumLmk(eta) > 0 /\ slam.do_asso /\ Len(Matched(a)) > 0) => corrs < MaxCorr
    /\ zExact(Ravel(zb))
    /\ NumLmk(eta) > 0 => /\ HExact(eta, slam.sensor_offset)
                          /\ IsSymmetric(P)
    /\ slam.do_asso =>
          NumLmk(eta) + (IF NumLmk(eta) > 0 THEN Len(UnmatchedFrom(a, 1)) ELSE Len(zb))
              <= MaxLmk

\* landmark initialisation is exact after the correction c
NewLmkExact(c) ==
    (c.status = "ok" /\ TakesNew(c, slam)) => IsGridAngle(c.etaupd[3])

\* update returns the arrays it was given when it neither corrects (lines
\* 436-437, 472-473) nor adds landmarks (line 483); every other result is a
\* new array (lines 451, 457, 323-324), and no statement of update, associate
\* or add_landmarks assigns into eta or P
ReturnsArguments(r, sl) == r.status = "ok" /\ ~r.corrected /\ ~TakesNew(r, sl)

\* the caller's arrays and the record of the call, r what update gave; argEta
\* and argP are what the arrays passed as eta and P hold when the call ends
UpdateReturn(zb, r) ==
    /\ eta' = (IF r.status = "ok" THEN r.eta ELSE eta)
    /\ P' = (IF r.status = "ok" THEN r.P ELSE P)
    /\ last' = [op |-> "update", status |-> r.status, eta_in |-> eta,
                P_in |-> P, u |-> <<>>, zb |-> zb, NIS |-> r.NIS, a |-> r.a,
                etaupd |-> r.etaupd, Pupd |-> r.Pupd,
                corrected |-> r.corrected, k |-> r.k,
                argEta |-> eta, argP |-> P,
                sameEta |-> ReturnsArguments(r, slam),
                sameP |-> ReturnsArguments(r, slam)]
    /\ corrs' = corrs + (IF r.corrected /\ r.status = "ok" THEN 1 ELSE 0)

\* c is the outcome of lines 416-473
UpdateFrom(zb, c) ==
    /\ NewLmkExact(c)
    /\ \E r \in {update_finish(eta, P, Ravel(zb), c, slam)} : UpdateReturn(zb, r)

Update(zb, a) ==
    /\ Running
    /\ UpdateExact(zb, a)
    /\ \E c \in {update_correct(eta, P, Ravel(zb), a, slam)} : UpdateFrom(zb, c)
    /\ calls' = calls + 1
    /\ UNCHANGED slam

Next ==
    \/ \E u \in Odometry : Predict(u)
    \/ \E zb \in Batches :
          \E a \in Assignments(Len(zb), IF NumLmk(eta) > 0 THEN NumLmk(eta) ELSE 0) :
              Update(zb, a)

Spec == Init /\ [][Next]_vars

\* callers that hand over an eta and a P of different sizes
Mismatched(off) == { <<Eta0, Eye(5)>>, <<Eta1(off), Eye(3)>> }

InitAny ==
    /\ \E b \in Builds : \E d \in BOOLEAN : \E s \in Starts(b[2]) \cup Mismatched(b[2]) :
          /\ slam = [Q |-> QMat, R |-> b[1], do_asso |-> d, sensor_offset |-> b[2]]
          /\ eta = s[1]
          /\ P = s[2]
    /\ last = NoCall
    /\ calls = 0
    /\ corrs = 0

SpecAny == InitAny /\ [][Next]_vars

(***************************************************************************)
(* EKFSLAM.NEESes, called with an estimate (eta, P), both of size 3, and a *)
(* ground truth x_gt.  A component is a number c0 + c1*(pi/2) + c2*(pi/2)^2*)
(* or one of the floats inf and nan.                                       *)
(***************************************************************************)
\* rational bounds of pi/2
PiHalfLo == <<3, 2>>
PiHalfHi == <<8, 5>>

Finite(t) == [kind |-> "num", v |-> t]
FloatInf == [kind |-> "inf", v |-> <<>>]
FloatNaN == [kind |-> "nan", v |-> <<>>]

\* bounds of c0 + c1*(pi/2) + c2*(pi/2)^2 from the bounds of pi/2
PolyLo(t) ==
    RAdd(t[1], RAdd(RMul(t[2], IF t[2][1] >= 0 THEN PiHalfLo ELSE PiHalfHi),
                    RMul(t[3], IF t[3][1] >= 0 THEN RMul(PiHalfLo, PiHalfLo)
                                               ELSE RMul(PiHalfHi, PiHalfHi))))
PolyHi(t) ==
    RAdd(t[1], RAdd(RMul(t[2], IF t[2][1] >= 0 THEN PiHalfHi ELSE PiHalfLo),
                    RMul(t[3], IF t[3][1] >= 0 THEN RMul(PiHalfHi, PiHalfHi)
                                               ELSE RMul(PiHalfLo, PiHalfLo))))

\* c >= 0 is True for a float: inf is, nan is not
FloatNonNeg(c) ==
    IF c.kind = "num" THEN RLe(RZero, PolyLo(c.v)) ELSE c.kind = "inf"

Det2(A) == RSub(RMul(A[1][1], A[2][2]), RMul(A[1][2], A[2][1]))
Det3(A) ==
    RAdd(RSub(RMul(A[1][1], RSub(RMul(A[2][2], A[3][3]), RMul(A[2][3], A[3][2]))),
              RMul(A[1][2], RSub(RMul(A[2][1], A[3][3]), RMul(A[2][3], A[3][1])))),
         RMul(A[1][3], RSub(RMul(A[2][1], A[3][2]), RMul(A[2][2], A[3][1]))))

\* np.linalg.solve raises LinAlgError on a singular matrix
Singular(A) == IF Len(A) = 2 THEN Det2(A) = RZero ELSE Det3(A) = RZero

\* lines 507-508
NEES_d_x(x, x_gt) ==
    <<NSub(x[1], x_gt[1]), NSub(x[2], x_gt[2]), wrapToPi(NSub(x[3], x_gt[3]))>>

\* lines 524-527: numpy floats divide by zero without raising, x / 0.0 is inf
\* and 0.0 / 0.0 is nan
NEES_heading(dh, Ph) ==
    IF Ph = RZero
    THEN IF dh.q = RZero THEN FloatNaN ELSE FloatInf
    ELSE Finite(<<RZero, RZero, RDiv(RMul(dh.q, dh.q), Ph)>>)

\* line 530
ClampNaN(c) == IF c.kind = "nan" THEN Finite(NISOne) ELSE c

NEESRaised(d) == [status |-> "raise", d_x |-> d, nees |-> <<>>]

\* lines 503-533: [status, d_x, nees]
NEESes(x, A, x_gt) ==
    LET d == NEES_d_x(x, x_gt)
        Pp == Block(A, 0, 2, 0, 2)
    IN  IF Singular(A) \/ Singular(Pp) THEN NEESRaised(d)
        ELSE LET n == << ClampNaN(Finite(NISof(d, A))),
                         ClampNaN(Finite(NISof(SubSeq(d, 1, 2), Pp))),
                         ClampNaN(NEES_heading(d[3], A[3][3])) >>
             IN  IF \A i \in 1..3 : FloatNonNeg(n[i])
                 THEN [status |-> "ok", d_x |-> d, nees |-> n]
                 ELSE NEESRaised(d)

\* estimates, covariances and ground truths of the consistency analysis
NEESEstimates == { <<NumI(0), NumI(0), QTurn(0)>>, <<NumI(1), NumI(0), QTurn(2)>>,
                   <<NumI(0), NumI(1), QTurn(1)>> }
GroundTruths == { <<NumI(0), NumI(0), QTurn(0)>>, <<NumI(1), NumI(0), QTurn(0)>>,
                  <<NumI(0), NumI(0), QTurn(-1)>>, <<NumI(1), NumI(0), QTurn(2)>>,
                  <<NumI(0), NumI(2), QTurn(1)>>, <<NumI(1), NumI(1), QTurn(-1)>> }
PHeadingZero == IntMat(<< <<1, 0, 0>>, <<0, 1, 0>>, <<0, 0, 0>> >>)
PHeadingZeroRegular == IntMat(<< <<1, 0, 1>>, <<0, 1, 0>>, <<1, 0, 0>> >>)
PPositionSingular == IntMat(<< <<1, 1, 0>>, <<1, 1, 0>>, <<0, 0, 1>> >>)
PCorrelated == IntMat(<< <<2, 1, 0>>, <<1, 2, 1>>, <<0, 1, 2>> >>)
NEESCovs == { Eye(3), Zeros(3, 3), PHeadingZero, PHeadingZeroRegular,
              PPositionSingular, PCorrelated }

InitNEES ==
    /\ \E b \in Builds :
          slam = [Q |-> QMat, R |-> b[1], do_asso |-> FALSE, sensor_offset |-> b[2]]
    /\ eta \in NEESEstimates
    /\ P \in NEESCovs
    /\ last = NoCall
    /\ calls = 0
    /\ corrs = 0

\* the sign of every finite component is decided by the bounds of pi/2
NEESExact(x, A, x_gt) ==
    (~Singular(A) /\ ~Singular(Block(A, 0, 2, 0, 2))) =>
        LET d == NEES_d_x(x, x_gt)
            t == <<NISof(d, A), NISof(SubSeq(d, 1, 2), Block(A, 0, 2, 0, 2))>>
        IN  \A i \in 1..2 : RLe(RZero, PolyLo(t[i])) \/ RLt(PolyHi(t[i]), RZero)

NEESReturn(x_gt, r) ==
    last' = [op |-> "NEESes", status |-> r.status, x_gt |-> x_gt, d_x |-> r.d_x,
             nees |-> r.nees]

NEES(x_gt) ==
    /\ Running
    /\ NEESExact(eta, P, x_gt)
    /\ \E r \in {NEESes(eta, P, x_gt)} : NEESReturn(x_gt, r)
    /\ calls' = calls + 1
    /\ UNCHANGED <<eta, P, slam, corrs>>

NextNEES == \E x_gt \in GroundTruths : NEES(x_gt)

SpecNEES == InitNEES /\ [][NextNEES]_vars

(***************************************************************************)
(* The INS driving loops (graded_2/run_INS_real.py and                     *)
(* graded_2/run_INS_simulated.py).  The loop state is kept in last:        *)
(* timeIMU and timeGNSS are the loaded timestamp arrays, k the loop index, *)
(* GNSSk the index of the next GNSS measurement (both 0-based as in the    *)
(* code), reads the value of GNSSk at each evaluation of timeGNSS[GNSSk],  *)
(* used the pairs (k, GNSSk) of the measurements handed to the filter,     *)
(* x_est which branch filled x_est[k], and x_pred the number of rows of    *)
(* x_pred written.  The filter calls themselves do not touch k or GNSSk.   *)
(***************************************************************************)
MaxIMU == 3
MaxGNSS == 2
MaxTime == 2

NonDecreasing(t) == \A i \in 1..Len(t) : \A j \in i..Len(t) : t[i] <= t[j]

\* the timestamp arrays of at most n entries, sorted as a log of a clock is
TimeSeqs(n) ==
    { t \in UNION { [1..m -> 0..MaxTime] : m \in 0..n } : NonDecreasing(t) }

doGNSS == TRUE

\* indexing a numpy array at or past its length raises IndexError
IndexError(arr, i) == i >= Len(arr)

\* one pass of the loop body; on says whether the condition reads timeGNSS
ins_step(l, on) ==
    LET N == Len(l.timeIMU)
        rd == IF on THEN Append(l.reads, l.GNSSk) ELSE l.reads
        due == on /\ l.timeIMU[l.k + 1] >= l.timeGNSS[l.GNSSk + 1]
    IN  IF on /\ IndexError(l.timeGNSS, l.GNSSk)
        THEN [l EXCEPT !.status = "raise", !.reads = rd]
        ELSE [l EXCEPT !.reads = rd,
                       !.used = IF due THEN Append(@, <<l.k, l.GNSSk>>) ELSE @,
                       !.x_est = Append(@, IF due THEN "update" ELSE "x_pred"),
                       !.GNSSk = IF due THEN @ + 1 ELSE @,
                       !.x_pred = IF l.k < N - 1 THEN @ + 1 ELSE @,
                       !.k = @ + 1,
                       !.status = IF l.k + 1 < N THEN "run" ELSE "done"]

InitINS ==
    /\ \E b \in Builds :
          slam = [Q |-> QMat, R |-> b[1], do_asso |-> FALSE, sensor_offset |-> b[2]]
    /\ eta = <<>>
    /\ P = <<>>
    /\ calls = 0
    /\ corrs = 0
    /\ \E loop \in {"real", "simulated"}, tI \in TimeSeqs(MaxIMU),
          tG \in TimeSeqs(MaxGNSS) :
          last = [op |-> "ins", loop |-> loop, timeIMU |-> tI, timeGNSS |-> tG,
                  k |-> 0, GNSSk |-> 0, reads |-> <<>>, used |-> <<>>,
                  x_est |-> <<>>, x_pred |-> 1,
                  status |-> IF Len(tI) > 0 THEN "run" ELSE "done"]

StepReal ==
    /\ last.loop = "real"
    /\ last.status = "run"
    /\ last' = ins_step(last, TRUE)
    /\ UNCHANGED <<eta, P, slam, calls, corrs>>

StepSimulated ==
    /\ last.loop = "simulated"
    /\ last.status = "run"
    /\ last' = ins_step(last, doGNSS)
    /\ UNCHANGED <<eta, P, slam, calls, corrs>>

NextINS == StepReal \/ StepSimulated

SpecINS == InitINS /\ [][NextINS]_vars

(***************************************************************************)
(* Properties.                                                             *)
(***************************************************************************)
\* the last call returned an (eta, P) pair
Returned == last.op # "init" /\ last.status = "ok"

\* C1: every (eta, P) pair that a predict or update call returns has P
\* symmetric and positive semi-definite.
C1_ReturnedPSymmetricPSD == Returned => (IsSymmetric(P) /\ EigvalsNonNeg(P))

\* a third call in a row has returned, an update with a Kalman correction
C1_Witness ==
    /\ Returned /\ calls = MaxCalls
    /\ last.op = "update" /\ last.corrected
    /\ IsSymmetric(P) /\ EigvalsNonNeg(P)

\* x > pi, for x = r + q*(pi/2)
AbovePi(x) ==
    LET c == RSub(x.q, Rat(2))
    IN  RLt(RZero, RAdd(x.r, RMul(c, IF c[1] >= 0 THEN PiHalfLo ELSE PiHalfHi)))

\* x <= -pi
NotAboveMinusPi(x) ==
    LET c == RAdd(x.q, Rat(2))
    IN  RLe(RAdd(x.r, RMul(c, IF c[1] >= 0 THEN PiHalfHi ELSE PiHalfLo)), RZero)

\* C2: the heading eta[2] lies in (-pi, pi] in every state predict or update
\* returns.
C2_HeadingWrapped == Returned => ~(AbovePi(eta[3]) \/ NotAboveMinusPi(eta[3]))

\* C3: eta has length 3 + 2L and P is square of that size; L never
\* decreases, predict leaves it unchanged, and update appends the new
\* landmarks after the ones it has, which keep their places.
C3_Shape == Len(eta) = 3 + 2 * NumLmk(eta) /\ ShapesMatch(eta, P)

C3_Step ==
    /\ Len(eta') >= Len(eta)
    /\ last'.op = "predict" => Len(eta') = Len(eta)
    /\ (last'.op = "update" /\ last'.status = "ok") =>
          /\ Len(last'.etaupd) = Len(eta)
          /\ SubSeq(eta', 1, Len(eta)) = last'.etaupd
          /\ Block(P', 0, Len(eta), 0, Len(eta)) = last'.Pupd

C3_Lifecycle == []C3_Shape /\ [][C3_Step]_vars

\* a landmark was appended to a map that had one, after a Kalman correction
C3_Witness ==
    /\ Returned /\ last.op = "update" /\ last.corrected
    /\ NumLmk(last.eta_in) = 1 /\ NumLmk(eta) = 2
    /\ SubSeq(eta, 1, 5) = last.etaupd

\* C4: predict returns eta and P of the dimensions it was given, with the
\* landmark entries eta[3:] and the map-map block P[3:, 3:] as they were.
C4_PredictFrame ==
    (Returned /\ last.op = "predict") =>
        LET n == Len(last.eta_in)
        IN  /\ Len(eta) = n /\ ShapesMatch(eta, P)
            /\ SubSeq(eta, 4, n) = SubSeq(last.eta_in, 4, n)
            /\ Block(P, 3, n - 3, 3, n - 3) = Block(last.P_in, 3, n - 3, 3, n - 3)

\* predict moved the pose of a state that has landmarks
C4_Witness ==
    /\ Returned /\ last.op = "predict"
    /\ NumLmk(eta) >= 1
    /\ SubSeq(eta, 1, 3) # SubSeq(last.eta_in, 1, 3)
    /\ SubSeq(eta, 4, Len(eta)) = SubSeq(last.eta_in, 4, Len(eta))

\* the documented Jacobians: the identity with Fx[0:2, 2] = R(theta + pi/2) u[:2],
\* and the identity with R(theta) as its top-left block
DocFx(x, u) ==
    LET d == Rot2Rat(rotmat2d(Q4(x[3]) + 1), <<u[1].r, u[2].r>>)
    IN  << <<ROne, RZero, d[1]>>, <<RZero, ROne, d[2]>>, <<RZero, RZero, ROne>> >>

DocFu(x) ==
    LET Rt == rotmat2d(Q4(x[3]))
    IN  << <<Rt[1][1], Rt[1][2], RZero>>, <<Rt[2][1], Rt[2][2], RZero>>,
           <<RZero, RZero, ROne>> >>

\* C5: predict yields pose' = (x[:2] + R(theta) u[:2], wrap(theta + dtheta)),
\* P_pose' = Fx P_pose Fx^T + Fu Q Fu^T, P_pose-map' = Fx P_pose-map and
\* P_map-pose' its transpose, all from the input pose and the input P; pose
\* (0,0,0) with odometry (1,0,0) gives pose (1,0,0) and P_pose grown by Q (the
\* noise term Fu Q Fu^T is Q there, Fu being the identity).
C5_PredictClosedForm ==
    (Returned /\ last.op = "predict") =>
        LET x == SubSeq(last.eta_in, 1, 3)
            u == last.u
            m == Len(last.eta_in) - 3
            d == Rot2Vec(rotmat2d(Q4(x[3])), <<u[1], u[2]>>)
            FX == DocFx(x, u)
            FU == DocFu(x)
            Pxx == Block(last.P_in, 0, 3, 0, 3)
            Pxm == Block(last.P_in, 0, 3, 3, m)
        IN  /\ eta[1] = NAdd(x[1], d[1])
            /\ eta[2] = NAdd(x[2], d[2])
            /\ eta[3] = wrapToPi(NAdd(x[3], u[3]))
            /\ Block(P, 0, 3, 0, 3) =
                  MatAdd(MatMulT(MatMul(FX, Pxx, 3, 3, 3), FX, 3, 3, 3),
                         MatMulT(MatMul(FU, slam.Q, 3, 3, 3), FU, 3, 3, 3), 3, 3)
            /\ Block(P, 0, 3, 3, m) = MatMul(FX, Pxm, 3, 3, m)
            /\ Block(P, 3, m, 0, 3) = Transpose(MatMul(FX, Pxm, 3, 3, m), 3, m)
            /\ (x = Eta0 /\ u = <<NumI(1), NumI(0), QTurn(0)>>) =>
                  /\ SubSeq(eta, 1, 3) = <<NumI(1), NumI(0), QTurn(0)>>
                  /\ Block(P, 0, 3, 0, 3) =
                        MatAdd(MatMulT(MatMul(FX, Pxx, 3, 3, 3), FX, 3, 3, 3), slam.Q, 3, 3)

\* predict drove a turned robot that has landmarks forward
C5_Witness ==
    /\ Returned /\ last.op = "predict"
    /\ NumLmk(eta) >= 1
    /\ last.eta_in[3] # QTurn(0)
    /\ last.u = <<NumI(1), NumI(0), QTurn(0)>>
    /\ Block(P, 0, 3, 3, 2) # Block(last.P_in, 0, 3, 3, 2)

\* the input of the last call was a valid state
ValidIn ==
    /\ IsSymmetric(last.P_in) /\ EigvalsNonNeg(last.P_in)
    /\ ShapesMatch(last.eta_in, last.P_in)

\* C6: update with an empty batch returns eta and P equal to its inputs and
\* NIS 1, for every valid state and both settings of the association flag.
C6_EmptyBatchReturnsInputs ==
    (last.op = "update" /\ last.zb = <<>> /\ ValidIn) =>
        /\ last.status = "ok"
        /\ eta = last.eta_in /\ P = last.P_in
        /\ last.NIS = NISOne

\* C7: with no landmarks yet, or with landmarks and no measurement matched,
\* update performs no Kalman correction: the (eta, P) handed on to landmark
\* initialisation are the inputs and the returned NIS is 1.
C7_NoMatchNoCorrection ==
    (Returned /\ last.op = "update"
        /\ (NumLmk(last.eta_in) = 0 \/ Matched(last.a) = <<>>)) =>
        /\ ~last.corrected
        /\ last.etaupd = last.eta_in /\ last.Pupd = last.P_in
        /\ last.NIS = NISOne

\* landmarks exist, the batch has a detection, none is matched, and the
\* detection became a landmark
C7_Witness ==
    /\ Returned /\ last.op = "update"
    /\ NumLmk(last.eta_in) = 1 /\ Len(last.zb) = 1 /\ Matched(last.a) = <<>>
    /\ NumLmk(eta) = 2
    /\ last.etaupd = last.eta_in /\ last.NIS = NISOne

\* C8: with do_asso false update completes normally for every valid state
\* and batch: no Kalman correction, eta and P returned as given, no landmark
\* initialised.
C8_AssociationOffCompletes ==
    (last.op = "update" /\ ~slam.do_asso /\ ValidIn) =>
        /\ last.status = "ok"
        /\ ~last.corrected
        /\ eta = last.eta_in /\ P = last.P_in

\* W[i] @ v for a rational matrix W and a vector v of numbers
RowDot(W, v, i) ==
    LET Tr(l) == RMul(W[i][l], v[l].r)
        Tq(l) == RMul(W[i][l], v[l].q)
    IN  Num(RSum(Tr, 1, Len(v)), RSum(Tq, 1, Len(v)))

\* v^T @ Si @ v, a polynomial in pi/2
QuadForm(Si, v) ==
    LET k == Len(v)
        C0(i) == LET T(j) == RMul(Si[i][j], RMul(v[i].r, v[j].r)) IN RSum(T, 1, k)
        C1(i) == LET T(j) == RMul(Si[i][j], RAdd(RMul(v[i].r, v[j].q), RMul(v[i].q, v[j].r)))
                 IN  RSum(T, 1, k)
        C2(i) == LET T(j) == RMul(Si[i][j], RMul(v[i].q, v[j].q)) IN RSum(T, 1, k)
    IN  <<RSum(C0, 1, k), RSum(C1, 1, k), RSum(C2, 1, k)>>

\* C9: when a measurement is matched, update computes v = z_matched -
\* z_pred_matched with every bearing wrapped to (-pi, pi], W = P H_m^T S_m^-1,
\* eta' = eta + W v, P' = (I - W H_m) P and NIS = v^T S_m^-1 v, from the input
\* P and the matched rows of H and S.
C9_KalmanCorrection ==
    (last.op = "update" /\ last.corrected) =>
        LET e == last.eta_in
            A == last.P_in
            n == Len(last.eta_in)
            z == Ravel(last.zb)
            m == Matched(last.a)
            k == 2 * Len(Matched(last.a))
            zp == h(last.eta_in, slam.sensor_offset)
            Hm == H(last.eta_in, slam.sensor_offset)
            \* component i of the matched measurements: its place in z and in zpred
            zi(i) == 2 * m[(i + 1) \div 2] - (i % 2)
            row(i) == 2 * last.a[m[(i + 1) \div 2]] + 2 - (i % 2)
            v == last.k.v
            W == last.k.W
            Si == Inv(last.k.Sa)
        IN  /\ Len(v) = k
            /\ \A i \in 1..k :
                  /\ v[i] = IF i % 2 = 0 THEN wrapToPi(NSub(z[zi(i)], zp[row(i)]))
                            ELSE NSub(z[zi(i)], zp[row(i)])
                  /\ i % 2 = 0 => ~(AbovePi(v[i]) \/ NotAboveMinusPi(v[i]))
            /\ last.k.Ha = SubSeq([i \in 1..k |-> Hm[row(i)]], 1, k)
            /\ last.k.Sa = SubSeq([i \in 1..k |->
                              SubSeq([j \in 1..k |-> last.k.S[row(i)][row(j)]], 1, k)], 1, k)
            /\ MatMul(W, last.k.Sa, n, k, k) = MatMulT(A, last.k.Ha, n, n, k)
            /\ last.etaupd = SubSeq([i \in 1..n |-> NAdd(e[i], RowDot(W, v, i))], 1, n)
            /\ last.Pupd = MatMul(MatSub(Eye(n), MatMul(W, last.k.Ha, n, k, n), n, n), A, n, n, n)
            /\ MatMul(Si, last.k.Sa, k, k, k) = Eye(k)
            /\ last.NIS = QuadForm(Si, v)

\* two measurements matched, in the other order than the landmarks, and the
\* correction moved the state
C9_Witness ==
    /\ Returned /\ last.op = "update" /\ last.corrected
    /\ last.a = <<1, 0>>
    /\ last.etaupd # last.eta_in
    /\ last.Pupd # last.P_in

\* the block-diagonal repetition of the full 2x2 R, once per landmark
Rbig_full(R, L) ==
    SubSeq([i \in 1..(2 * L) |-> SubSeq([j \in 1..(2 * L) |->
        IF (i + 1) \div 2 = (j + 1) \div 2
        THEN R[2 - (i % 2)][2 - (j % 2)] ELSE RZero], 1, (2 * L))], 1, (2 * L))

\* C10: for L >= 1 landmarks the innovation covariance passed to association
\* is S = H P H^T + R_big, R_big the block-diagonal repetition of the full R.
C10_InnovationCovFullR ==
    (last.op = "update" /\ NumLmk(last.eta_in) >= 1) =>
        last.k.S = InnovCov(H(last.eta_in, slam.sensor_offset), last.P_in,
                            Rbig_full(slam.R, NumLmk(last.eta_in)), NumLmk(last.eta_in))

BadIn ==
    \/ ~ShapesMatch(last.eta_in, last.P_in)
    \/ ~IsSymmetric(last.P_in)
    \/ ~EigvalsNonNeg(last.P_in)

\* C12: predict and update raise whenever eta and P have inconsistent
\* dimensions, or P is not symmetric, or P has a negative eigenvalue; neither
\* returns normally on such an input.
C12_BadInputAborts == (last.op # "init" /\ BadIn) => last.status = "raise"

\* C13: with association enabled associate returns the matched measurements
\* in measurement order, range and bearing of each; the k-th matched pair is
\* aligned with entries 2a, 2a+1 of z_pred, rows 2a, 2a+1 of H and rows and
\* columns 2a, 2a+1 of S for its landmark a; the outputs have length twice
\* the number of matched measurements and the assignment is returned as given.
C13_AssociateAligns ==
    (last.op = "update" /\ slam.do_asso /\ last.k.zpred # <<>>) =>
        LET z == Ravel(last.zb)
            a == last.k.aj
            m == Matched(last.k.aj)
            n == Len(Matched(last.k.aj))
        IN  /\ last.a = a
            /\ Len(last.k.za) = 2 * n /\ Len(last.k.zpa) = 2 * n
            /\ Len(last.k.Ha) = 2 * n /\ Len(last.k.Sa) = 2 * n
            /\ \A i \in 1..n : \A c \in 1..2 :
                  /\ a[m[i]] > -1
                  /\ last.k.za[2 * (i - 1) + c] = last.zb[m[i]][c]
                  /\ last.k.zpa[2 * (i - 1) + c] = last.k.zpred[2 * a[m[i]] + c]
                  /\ last.k.Ha[2 * (i - 1) + c] = last.k.H[2 * a[m[i]] + c]
                  /\ Len(last.k.Sa[2 * (i - 1) + c]) = 2 * n
                  /\ \A j \in 1..n : \A d \in 1..2 :
                        last.k.Sa[2 * (i - 1) + c][2 * (j - 1) + d]
                            = last.k.S[2 * a[m[i]] + c][2 * a[m[j]] + d]
            /\ \A i \in 1..(n - 1) : m[i] < m[i + 1]
            /\ \A i \in 1..Len(a) : a[i] > -1 => \E j \in 1..n : m[j] = i

\* two measurements matched to two landmarks in the other order
C13_Witness ==
    /\ last.op = "update" /\ slam.do_asso
    /\ last.k.aj = <<1, 0>> /\ last.a = <<1, 0>>
    /\ Len(last.k.za) = 4
    /\ last.k.zpa[1] = last.k.zpred[3]
    /\ last.k.zpred[1] # last.k.zpred[3]

\* the last call was an update that returned with landmarks added
AddedLandmarks ==
    /\ Returned /\ last.op = "update"
    /\ slam.do_asso /\ UnmatchedFrom(last.a, 1) # <<>>

\* C14: add_landmarks returns eta' of length len(eta) + 2k whose first
\* len(eta) entries are eta and whose j-th appended pair is robot position +
\* range_j (cos(heading + bearing_j), sin(heading + bearing_j)) + R(heading)
\* sensor_offset, in the order of the input pairs.
C14_NewLandmarkPositions ==
    AddedLandmarks =>
        LET e == last.etaupd
            n == Len(last.etaupd)
            u == UnmatchedFrom(last.a, 1)
            th == Q4(last.etaupd[3])
            off == slam.sensor_offset
            ox == RSub(RMul(Rat(Cos4(th)), off[1]), RMul(Rat(Sin4(th)), off[2]))
            oy == RAdd(RMul(Rat(Sin4(th)), off[1]), RMul(Rat(Cos4(th)), off[2]))
        IN  /\ Len(eta) = n + 2 * Len(u)
            /\ SubSeq(eta, 1, n) = e
            /\ \A j \in 1..Len(u) :
                  LET r == last.zb[u[j]][1].r
                      b == Q4(last.zb[u[j]][2])
                  IN  /\ eta[n + 2 * j - 1] =
                            NAdd(e[1], NumR(RAdd(RMul(r, Rat(Cos4(th + b))), ox)))
                      /\ eta[n + 2 * j] =
                            NAdd(e[2], NumR(RAdd(RMul(r, Rat(Sin4(th + b))), oy)))

\* a turned robot with an offset sensor added a landmark to a map that had one
C14_Witness ==
    /\ AddedLandmarks
    /\ NumLmk(last.eta_in) = 1 /\ NumLmk(eta) = 2
    /\ last.etaupd[3] # QTurn(0)
    /\ slam.sensor_offset # <<RZero, RZero>>

\* C15: add_landmarks returns P' of size n + 2k whose top-left n x n block is
\* the prior P, whose new block is Gx P_pose Gx^T + blockdiag_j(Gz_j R Gz_j^T),
\* whose top-right block is P[:, :3] Gx^T and whose bottom-left block is its
\* transpose; P' is symmetric and positive semi-definite whenever the prior P
\* is, so landmark initialisation on a valid state does not raise.
C15_NewLandmarkCovariance ==
    /\ AddedLandmarks =>
        LET e == last.etaupd
            A == last.Pupd
            n == Len(last.Pupd)
            zn == z_new(Ravel(last.zb), last.a)
            m == Len(z_new(Ravel(last.zb), last.a))
            G == Gx(last.etaupd, z_new(Ravel(last.zb), last.a), slam.sensor_offset)
            GPG == MatMulT(MatMul(G, Block(A, 0, 3, 0, 3), m, 3, 3), G, m, 3, m)
            PG == MatMulT(Block(A, 0, n, 0, 3), G, n, 3, m)
            GRG(j) == LET Z == Gz(e, zn, j)
                      IN  MatMulT(MatMul(Z, slam.R, 2, 2, 2), Z, 2, 2, 2)
        IN  /\ Len(P) = n + m /\ IsSquare(P)
            /\ Block(P, 0, n, 0, n) = A
            /\ \A i \in 1..m : \A j \in 1..m :
                  P[n + i][n + j] =
                      RAdd(GPG[i][j],
                           IF (i + 1) \div 2 = (j + 1) \div 2
                           THEN GRG((i + 1) \div 2)[2 - (i % 2)][2 - (j % 2)]
                           ELSE RZero)
            /\ Block(P, 0, n, n, m) = PG
            /\ Block(P, n, m, 0, n) = Transpose(PG, n, m)
            /\ IsSymmetric(P) /\ EigvalsNonNeg(P)
    /\ (last.op = "update" /\ slam.do_asso /\ last.zb # <<>> /\ ValidIn
            /\ NumLmk(last.eta_in) = 0) => last.status = "ok"

\* two landmarks were added at once to a map that had none, and a landmark
\* was added to a map that had one with a cross block that is not zero
C15_Witness ==
    /\ AddedLandmarks
    /\ \/ NumLmk(last.eta_in) = 0 /\ NumLmk(eta) = 2
             /\ Block(P, 0, 3, 3, 4) # Zeros(3, 4)
       \/ NumLmk(last.eta_in) = 1 /\ NumLmk(eta) = 2
             /\ Block(P, 0, 5, 5, 2) # Zeros(5, 2)

\* the robot at the origin with heading 0, no landmarks and no sensor offset
\* initialised the one measurement (range 1, bearing 0)
C16_Example ==
    /\ Returned /\ last.op = "update" /\ slam.do_asso
    /\ slam.sensor_offset = <<RZero, RZero>>
    /\ last.eta_in = Eta0
    /\ last.zb = << <<NumI(1), QTurn(0)>> >>

\* C16 as stated: the new landmark is at (1, 0) and its 2x2 covariance block
\* in the resulting P equals R.
C16_NewBlockIsR ==
    C16_Example =>
        /\ SubSeq(eta, 4, 5) = <<NumI(1), NumI(0)>>
        /\ Block(P, 3, 2, 3, 2) = slam.R

\* C16: the new landmark is at (1, 0); its 2x2 covariance block is
\* Gx P_pose Gx^T + R with Gx = [[1, 0, 0], [0, 1, 1]], the measurement noise
\* term Gz R Gz^T being R, and it equals R when P_pose is zero.
C16_NewBlockIsPosePlusR ==
    C16_Example =>
        LET G == IntMat(<< <<1, 0, 0>>, <<0, 1, 1>> >>)
            A == Block(last.P_in, 0, 3, 0, 3)
        IN  /\ SubSeq(eta, 4, 5) = <<NumI(1), NumI(0)>>
            /\ Block(P, 3, 2, 3, 2) =
                  MatAdd(MatMulT(MatMul(G, A, 2, 3, 3), G, 2, 3, 2), slam.R, 2, 2)
            /\ A = Zeros(3, 3) => Block(P, 3, 2, 3, 2) = slam.R

\* the example ran on a pose covariance that is not zero
C16_Witness ==
    /\ C16_Example
    /\ last.P_in = Eye(3)
    /\ SubSeq(eta, 4, 5) = <<NumI(1), NumI(0)>>
    /\ Block(P, 3, 2, 3, 2) # slam.R

\* C17: initialising a landmark from a measurement (range > 0, bearing in
\* (-pi, pi]) and then evaluating h on the resulting state, the pose
\* unchanged, returns the measurement's range and bearing for that landmark.
C17_RoundTrip ==
    AddedLandmarks =>
        LET n == Len(last.etaupd) - 3
            u == UnmatchedFrom(last.a, 1)
            zp == h(eta, slam.sensor_offset)
        IN  /\ SubSeq(eta, 1, 3) = SubSeq(last.etaupd, 1, 3)
            /\ Len(zp) = n + 2 * Len(u)
            /\ \A j \in 1..Len(u) :
                  /\ RLt(RZero, last.zb[u[j]][1].r)
                  /\ ~(AbovePi(last.zb[u[j]][2]) \/ NotAboveMinusPi(last.zb[u[j]][2]))
                  /\ zp[n + 2 * j - 1] = last.zb[u[j]][1]
                  /\ zp[n + 2 * j] = last.zb[u[j]][2]

\* a robot heading pi with an offset sensor initialised a landmark seen at
\* bearing -pi/2
C17_Witness ==
    /\ AddedLandmarks
    /\ last.etaupd[3] = QTurn(2)
    /\ slam.sensor_offset # <<RZero, RZero>>
    /\ \E i \in 1..Len(last.zb) : last.a[i] = -1 /\ last.zb[i][2] = QTurn(-1)

\* h was evaluated by the last call
Measured == last.op = "update" /\ last.k.zpred # <<>>

\* C18: h(eta) is a flat vector of length len(eta) - 3 with range_i at index
\* 2i and bearing_i at index 2i+1 in map order; range_i is the Euclidean norm
\* of d_i = landmark_i - robot position - R(heading) sensor_offset and
\* bearing_i is atan2 of d_i rotated by -heading, that is, the rotated vector
\* is range_i (cos bearing_i, sin bearing_i) with bearing_i in (-pi, pi]; a
\* landmark at (2, 0) seen from the origin with zero heading and zero offset
\* gives (2, 0).
C18_MeasurementModel ==
    Measured =>
        LET e == last.eta_in
            zp == last.k.zpred
            th == Q4(last.eta_in[3])
            off == slam.sensor_offset
            ox == RSub(RMul(Rat(Cos4(th)), off[1]), RMul(Rat(Sin4(th)), off[2]))
            oy == RAdd(RMul(Rat(Sin4(th)), off[1]), RMul(Rat(Cos4(th)), off[2]))
        IN  /\ Len(zp) = Len(e) - 3
            /\ \A i \in 1..NumLmk(e) :
                  LET dx == RSub(RSub(e[3 + 2 * i - 1].r, e[1].r), ox)
                      dy == RSub(RSub(e[3 + 2 * i].r, e[2].r), oy)
                      cx == RAdd(RMul(Rat(Cos4(th)), dx), RMul(Rat(Sin4(th)), dy))
                      cy == RSub(RMul(Rat(Cos4(th)), dy), RMul(Rat(Sin4(th)), dx))
                      r == zp[2 * i - 1]
                      b == zp[2 * i]
                  IN  /\ IsRational(r) /\ RLe(RZero, r.r)
                      /\ RMul(r.r, r.r) = RAdd(RMul(dx, dx), RMul(dy, dy))
                      /\ IsGridAngle(b) /\ Q4(b) \in -1..2
                      /\ cx = RMul(r.r, Rat(Cos4(Q4(b))))
                      /\ cy = RMul(r.r, Rat(Sin4(Q4(b))))
            /\ (e = Eta2 /\ off = <<RZero, RZero>>) => zp = <<NumI(2), QTurn(0)>>

\* h ran on the example state, and on a turned robot with an offset sensor
\* and two landmarks
C18_Witness ==
    /\ Measured
    /\ \/ last.eta_in = Eta2 /\ slam.sensor_offset = <<RZero, RZero>>
             /\ last.k.zpred = <<NumI(2), QTurn(0)>>
       \/ NumLmk(last.eta_in) = 2 /\ last.eta_in[3] # QTurn(0)
             /\ slam.sensor_offset # <<RZero, RZero>>
             /\ last.k.zpred[2] # last.k.zpred[4]

\* C19: for L landmarks at nonzero range H(eta) has shape (2L, 3 + 2L); the
\* two rows of landmark i are zero outside columns 0..2 and the landmark's own
\* two columns, and the block in its own columns is the negative of the block
\* in pose columns 0..1 of the same rows.
C19_JacobianStructure ==
    Measured =>
        LET Hm == last.k.H
            L == NumLmk(last.eta_in)
        IN  /\ Len(Hm) = 2 * L
            /\ \A k \in 1..(2 * L) :
                  LET i == (k + 1) \div 2
                  IN  /\ Len(Hm[k]) = 3 + 2 * L
                      /\ \A c \in 4..(3 + 2 * L) :
                            (c # 3 + 2 * i - 1 /\ c # 3 + 2 * i) => Hm[k][c] = RZero
                      /\ Hm[k][3 + 2 * i - 1] = RNeg(Hm[k][1])
                      /\ Hm[k][3 + 2 * i] = RNeg(Hm[k][2])

\* H of a state with two landmarks, the second with a block that is not zero
C19_Witness ==
    /\ Measured /\ NumLmk(last.eta_in) = 2
    /\ Len(last.k.H) = 4
    /\ <<last.k.H[3][6], last.k.H[3][7]>> # <<RZero, RZero>>
    /\ <<last.k.H[3][4], last.k.H[3][5]>> = <<RZero, RZero>>

\* the components of the last NEESes call whose computation divides by zero:
\* total, position, heading
Degenerate ==
    << Singular(P), Singular(Block(P, 0, 2, 0, 2)), P[3][3] = RZero >>

\* C20: NEESes returns three non-negative values computed from the error
\* x - x_gt with its heading wrapped, and every component whose computation
\* divides by zero or yields NaN is returned as 1.0, not as inf or NaN and
\* not as a raised error.
C20_NEESClamped ==
    (last.op = "NEESes" /\ (\E i \in 1..3 : Degenerate[i])) =>
        /\ last.status = "ok"
        /\ \A i \in 1..3 :
              /\ last.nees[i].kind = "num"
              /\ RLe(RZero, PolyLo(last.nees[i].v))
              /\ Degenerate[i] => last.nees[i].v = NISOne

\* the number of -1 entries of an assignment
RECURSIVE CountNew(_)
CountNew(a) ==
    IF a = <<>> THEN 0 ELSE (IF a[1] = -1 THEN 1 ELSE 0) + CountNew(SubSeq(a, 2, Len(a)))

\* C21: with association enabled update returns an assignment with one entry
\* per detection and appends one landmark per detection whose entry is -1, in
\* detection order, so len(eta') = len(eta) + 2 * (number of -1 entries); the
\* appended landmarks and their covariance are computed from the corrected
\* (eta, P), landmark initialisation coming after the Kalman correction of
\* the cycle; with no landmarks yet every detection is assigned -1 and
\* becomes a landmark.
C21_NewLandmarksAfterCorrection ==
    (Returned /\ last.op = "update" /\ slam.do_asso) =>
        LET n == Len(last.eta_in)
            k == CountNew(last.a)
            zn == z_new(Ravel(last.zb), last.a)
        IN  /\ Len(last.a) = Len(last.zb)
            /\ Len(eta) = n + 2 * k /\ Len(P) = n + 2 * k
            /\ Len(zn) = 2 * k
            /\ \A j \in 1..k : \E i \in 1..Len(last.a) :
                  /\ last.a[i] = -1
                  /\ CountNew(SubSeq(last.a, 1, i)) = j
                  /\ <<zn[2 * j - 1], zn[2 * j]>> = last.zb[i]
            /\ SubSeq(eta, 1, n) = last.etaupd
            /\ Block(P, 0, n, 0, n) = last.Pupd
            /\ k > 0 =>
                  /\ eta = last.etaupd \o lmnew(last.etaupd, zn, slam.sensor_offset)
                  /\ P = Padded(last.etaupd, last.Pupd, zn, slam.R, slam.sensor_offset)
            /\ k = 0 => (eta = last.etaupd /\ P = last.Pupd)
            /\ NumLmk(last.eta_in) = 0 =>
                  /\ \A i \in 1..Len(last.a) : last.a[i] = -1
                  /\ NumLmk(eta) = Len(last.zb)

\* the second of two detections was matched and corrected the state, and the
\* first became a landmark
C21_Witness ==
    /\ Returned /\ last.op = "update" /\ slam.do_asso
    /\ last.a = <<-1, 0>> /\ last.corrected
    /\ last.etaupd # last.eta_in
    /\ NumLmk(eta) = 2
    /\ SubSeq(eta, 1, 5) = last.etaupd

C23_GNSSIndexInRange ==
    /\ \A i \in 1..Len(last.used) : last.used[i][2] = i - 1
    /\ \A i \in 1..Len(last.used) : \A j \in 1..Len(last.used) :
          (last.used[i][1] = last.used[j][1]) => i = j
    /\ Len(last.used) <= last.k
    /\ \A i \in 1..Len(last.used) : last.used[i][2] < Len(last.timeGNSS)
    /\ \A i \in 1..Len(last.reads) : last.reads[i] < Len(last.timeGNSS)
    /\ last.status # "raise"

=============================================================================
